---- MODULE Spec2Model ----
(***************************************************************************)
(* DistanceEst (ABySS): estimation of the distance between contigs from    *)
(* paired-end alignments.  The module models main()'s parallel loop        *)
(* (src/DistanceEst/DistanceEst.cpp:380-436), the batch reader inside      *)
(* critical(in), writeEstimates, writeEstimate and estimateDistance.       *)
(*                                                                         *)
(* A SAM record is a TLA+ record of the fields the program reads: rname,   *)
(* mrnm, mapq, the flag bits (paired, unmapped, mateUnmapped, reverse,     *)
(* mateReverse) and the two coordinates targetAtQueryStart() (a0) and      *)
(* mateTargetAtQueryStart() (a1).  Contig names are their ContigID index.  *)
(* The cleared fields (qname, seq, qual) and est.stdDev are never read by  *)
(* anything modelled here and are left out.                                *)
(***************************************************************************)
EXTENDS Integers, Sequences, FiniteSets, Bags, TLC

VARIABLES
    stream,        \* the alignment records of the input, after the header
    pos,           \* index of the next record `in >> sam` will deliver
    pairs,         \* main's shared vector<SAMRecord> pairs
    seen,          \* main's vector<bool> seen
    optDot,        \* opt::dot
    optRf,         \* opt::rf, fixed before the parallel region
    optNpairs,     \* opt::npairs
    pc,            \* per worker: "loop", "estimate", "write", "done", or inside
                   \* critical(in) at the sortedness error: "error" while the
                   \* message is being written, "exit" before exit()
    privatePairs,  \* per worker: privatePairs
    pending,       \* per worker: the stream writes writeEstimates still has to do
    batchOf,       \* per worker: ordinal of the acquisition that gave the batch
                   \* it is working on, 0 when it has none
    handed,        \* history: the batches in the order critical(in) returned them
    out,           \* the primary output, one entry per write
    cerr,          \* the diagnostic stream, one entry per write
    exitCode,      \* -1 while running, 0 after return 0, 1 after exit(EXIT_FAILURE)
    estIn,         \* arguments of a call of estimateDistance (SpecEst)
    estOut,        \* what that call returned, once it has returned (SpecEst)
    calls,         \* history: the calls of writeEstimate made so far
    hist,          \* main's distanceHist / h (SpecHist)
    histPc,        \* "loaded", "oriented", "built" or "ready": how far main got
    nodeOrder,     \* the order of ContigNode the program was built with
    sentinelPairs  \* what the search leaves in numPairs with its sentinel

vars == <<stream, pos, pairs, seen, optDot, optRf, optNpairs, pc, privatePairs,
          pending, batchOf, handed, out, cerr, exitCode, estIn, estOut,
          calls, hist, histPc, nodeOrder, sentinelPairs>>

----------------------------------------------------------------------------
(* Bounds of the model: the length of the input streams, the number of    *)
(* workers, for the calls of estimateDistance checked on their own the    *)
(* size of a group and the contig length (coordinates are 0..length), and *)
(* for the fragment size histograms the largest key (keys are             *)
(* -MaxKey..MaxKey) and the largest count of a key.                       *)
MaxLen == 3
NumWorkers == 2
MaxGroup == 2
MaxCoord == 1
MaxKey == 1
MaxCount == 2

(* Option values of the modelled runs and program constants. *)
K == 2
SeedLen == 3
MinMapQ == 1
Verbose == 2
INT_MIN == -2147483647 - 1
INT_MAX == 2147483647

(* The error message of the sortedness check is written by three           *)
(* insertions into cerr.                                                   *)
ErrorParts == 3

Workers == 1..NumWorkers

(* lengthVec: the @SQ lengths of contigs 0, 1, 2 (contig 2 is shorter than *)
(* the seed length).                                                       *)
ContigLens == <<4, 4, 2>>
Contigs == 0..(Len(ContigLens) - 1)
LengthOf(id) == ContigLens[id + 1]

Rec(rn, mr, rev, mrev, c0, c1, q, pr, un, mun) ==
    [rname |-> rn, mrnm |-> mr, reverse |-> rev, mateReverse |-> mrev,
     a0 |-> c0, a1 |-> c1, mapq |-> q,
     paired |-> pr, unmapped |-> un, mateUnmapped |-> mun]

(* The records the input streams are built from. *)
Records ==
    { Rec(0, 1, FALSE, TRUE, 1, 2, 1, TRUE, FALSE, FALSE),
      Rec(0, 1, FALSE, TRUE, 0, 3, 1, TRUE, FALSE, FALSE),
      Rec(0, 1, TRUE, TRUE, 1, 1, 1, TRUE, FALSE, FALSE),
      Rec(1, 0, TRUE, FALSE, 2, 2, 1, TRUE, FALSE, FALSE),
      Rec(2, 0, FALSE, TRUE, 1, 1, 1, TRUE, FALSE, FALSE),
      Rec(0, 1, FALSE, TRUE, 2, 1, 0, TRUE, FALSE, FALSE) }

(* The input streams: every stream of at most MaxLen records, and the      *)
(* streams of MaxLen + 1 records that alternate between two records of     *)
(* two anchors (an anchor that comes back after its batch).                *)
AlternatingStreams ==
    UNION { { [i \in 1..(MaxLen + 1) |-> IF i % 2 = 1 THEN a ELSE b] :
                b \in { r \in Records : r.rname # a.rname } } :
            a \in Records }

(* The streams of one batch of three groups of one anchor sense, two of    *)
(* them of one mate contig: the batches whose output shows the map order.  *)
ThreeGroupRecords ==
    { Rec(0, 1, FALSE, TRUE, 1, 2, 1, TRUE, FALSE, FALSE),
      Rec(0, 1, FALSE, FALSE, 1, 1, 1, TRUE, FALSE, FALSE),
      Rec(0, 2, FALSE, TRUE, 1, 1, 1, TRUE, FALSE, FALSE) }

ThreeGroupStreams ==
    { s \in [1..3 -> ThreeGroupRecords] : \A i, j \in 1..3 : i # j => s[i] # s[j] }

Streams ==
    UNION { [1..n -> Records] : n \in 1..MaxLen }
    \cup AlternatingStreams \cup ThreeGroupStreams

----------------------------------------------------------------------------
(* The record-level filter of the reader. *)
Dropped(sam) ==
    \/ sam.unmapped
    \/ sam.mateUnmapped
    \/ ~sam.paired
    \/ sam.rname = sam.mrnm
    \/ sam.mapq < MinMapQ

(* What one pass through critical(in) leaves behind. *)
BatchResult(p, prs, sn, b, f) ==
    [pos |-> p, pairs |-> prs, seen |-> sn, batch |-> b, fatal |-> f]

(* Mutant of EofResult: the batch is copied and pairs keeps its records.   *)
EofResultCopy(p, prs, sn) == BatchResult(p, prs, sn, prs, FALSE)

(* `in >> sam == false`: privatePairs.swap(pairs), pairs is left empty. *)
EofResult(p, prs, sn) == BatchResult(p, <<>>, sn, prs, FALSE)

(* A record of another anchor: fatal if its id was seen, else the batch is *)
(* closed, the id marked and the record starts the next batch.             *)
CloseResult(p, prs, sn, sam) ==
    IF sn[sam.rname]
    THEN BatchResult(p + 1, prs, sn, <<>>, TRUE)
    ELSE BatchResult(p + 1, <<sam>>, [sn EXCEPT ![sam.rname] = TRUE], prs, FALSE)

(* The loop inside critical(in). *)
RECURSIVE ReadBatch(_, _, _, _)
ReadBatch(s, p, prs, sn) ==
    IF p > Len(s) THEN EofResult(p, prs, sn)
    ELSE LET sam == s[p] IN
         IF Dropped(sam) THEN ReadBatch(s, p + 1, prs, sn)
         ELSE IF sam.rname = Head(prs).rname
              THEN ReadBatch(s, p + 1, Append(prs, sam), sn)
              ELSE CloseResult(p, prs, sn, sam)

----------------------------------------------------------------------------
(* With(e, F) is F(e): a local variable holding the value of e.           *)
With(e, F(_)) == CHOOSE y \in { F(x) : x \in {e} } : TRUE

(* The coordinates and lengths of the modelled inputs are far from the     *)
(* limits of int and unsigned, so the mixed int/unsigned arithmetic of     *)
(* estimateDistance is the arithmetic of the integers.                     *)
(* Mutant of Fragment: the anchor coordinate is reflected in the length of *)
(* the mate contig.                                                        *)
FragmentSwappedLength(len0, len1, sam) ==
    LET a0 == IF sam.reverse THEN len1 - sam.a0 ELSE sam.a0
        a1 == IF ~sam.mateReverse THEN len1 - sam.a1 ELSE sam.a1
    IN  IF optRf THEN <<a1, len1 + a0>> ELSE <<a0, len0 + a1>>

(* Mutant of Fragment: the length of the first contig is not added to the  *)
(* end.                                                                    *)
FragmentWithoutOffset(len0, len1, sam) ==
    LET a0 == IF sam.reverse THEN len0 - sam.a0 ELSE sam.a0
        a1 == IF ~sam.mateReverse THEN len1 - sam.a1 ELSE sam.a1
    IN  IF optRf THEN <<a1, a0>> ELSE <<a0, a1>>

(* Fragment Model: the provisional fragment of one record, the contigs    *)
(* laid end to end.                                                        *)
Fragment(len0, len1, sam) ==
    LET a0 == IF sam.reverse THEN len0 - sam.a0 ELSE sam.a0
        a1 == IF ~sam.mateReverse THEN len1 - sam.a1 ELSE sam.a1
    IN  IF optRf THEN <<a1, len1 + a0>> ELSE <<a0, len0 + a1>>

Fragments(len0, len1, prs) ==
    [i \in 1..Len(prs) |-> Fragment(len0, len1, prs[i])]

(* operator< of pair<int, int>. *)
PairLess(x, y) == x[1] < y[1] \/ (x[1] = y[1] /\ x[2] < y[2])

(* sort(fragments.begin(), fragments.end()) *)
RECURSIVE Insert(_, _)
Insert(x, sorted) ==
    IF sorted = <<>> THEN <<x>>
    ELSE IF PairLess(Head(sorted), x)
         THEN <<Head(sorted)>> \o Insert(x, Tail(sorted))
         ELSE <<x>> \o sorted

RECURSIVE Sort(_)
Sort(fs) ==
    IF fs = <<>> THEN <<>>
    ELSE With(Sort(Tail(fs)), LAMBDA sorted : Insert(Head(fs), sorted))

(* Mutant of Unique: two adjacent fragments of the same size are taken as  *)
(* equal.                                                                  *)
RECURSIVE UniqueBySize(_)
UniqueBySize(fs) ==
    IF Len(fs) <= 1 THEN fs
    ELSE IF fs[1][2] - fs[1][1] = fs[2][2] - fs[2][1] THEN UniqueBySize(Tail(fs))
         ELSE <<Head(fs)>> \o UniqueBySize(Tail(fs))

(* unique + erase: each run of adjacent equal elements keeps its first. *)
RECURSIVE Unique(_)
Unique(fs) ==
    IF Len(fs) <= 1 THEN fs
    ELSE IF fs[1] = fs[2] THEN Unique(Tail(fs))
         ELSE <<Head(fs)>> \o Unique(Tail(fs))

(* Mutant of Dedup: erase(begin, unique(begin, end)), the range that is    *)
(* kept and the range that is erased exchanged.                            *)
DedupErasesFront(fs) ==
    SubSeq(Sort(fs),
           Len(fs) + 1 - Cardinality({ i \in 1..(Len(fs) - 1) :
                                          Sort(fs)[i] = Sort(fs)[i + 1] }),
           Len(fs))

(* Mutant of Dedup: sorted, duplicates kept. *)
DedupSortOnly(fs) == Sort(fs)

(* Remove duplicate fragments. *)
Dedup(fs) == With(Sort(fs), Unique)

FragmentSizes(fs) == [i \in 1..Len(fs) |-> fs[i][2] - fs[i][1]]

(* The counts of the fragment sizes 0, 1, ... in the histogram file of the *)
(* library (index size + 1).                                               *)
PdfWeights == <<0, 0, 0, 1, 2, 1>>

(* PDF empiricalPDF(h): the distribution built from the histogram h that   *)
(* main has trimmed.  The probability of a size is its count over the      *)
(* size of h, so that counts compare as probabilities do; getMaxIdx() is   *)
(* the largest key of h.                                                   *)
PdfMaxIdx == CHOOSE key \in DOMAIN hist : \A j \in DOMAIN hist : j <= key
PdfAt(x) == IF x \in DOMAIN hist THEN hist[x] ELSE 0

(* The number of fragment sizes that agree with the distribution shifted   *)
(* by theta, and the joint likelihood of those that do.                    *)
RECURSIVE Agreeing(_, _)
Agreeing(theta, sizes) ==
    IF sizes = <<>> THEN 0
    ELSE (IF PdfAt(Head(sizes) + theta) > 0 THEN 1 ELSE 0)
         + Agreeing(theta, Tail(sizes))

RECURSIVE Likelihood(_, _)
Likelihood(theta, sizes) ==
    IF sizes = <<>> THEN 1
    ELSE (IF PdfAt(Head(sizes) + theta) > 0 THEN PdfAt(Head(sizes) + theta) ELSE 1)
         * Likelihood(theta, Tail(sizes))

(* The scan of the distances first..last for the one of greatest           *)
(* likelihood (a size that does not agree weighs less than any that does;  *)
(* of equal distances the first), with the number of pairs that agree      *)
(* with the distribution at it.                                            *)
RECURSIVE BestTheta(_, _, _, _, _, _)
BestTheta(theta, last, sizes, best, bestN, bestL) ==
    IF theta > last
    THEN [distance |-> best, numPairs |-> bestN]
    ELSE With(<<Agreeing(theta, sizes), Likelihood(theta, sizes)>>, LAMBDA at :
            IF at[1] > bestN \/ (at[1] = bestN /\ at[2] > bestL)
            THEN BestTheta(theta + 1, last, sizes, theta, at[1], at[2])
            ELSE BestTheta(theta + 1, last, sizes, best, bestN, bestL))

(* The search has a sentinel for "no valid maximum".  What it leaves in    *)
(* numPairs then is not part of what is known of it: the number of         *)
(* agreeing pairs, which is none, or the count as the caller passed it.    *)
SentinelPairs == {"agreeing", "passed"}

(* maximumLikelihoodEstimate: the distance of the scan, with numPairs set  *)
(* to the number of pairs that agree with the distribution at it; when no  *)
(* pair agrees at any distance there is no valid maximum: the sentinel.    *)
MaximumLikelihoodEstimate(first, last, sizes, len0, len1, numPairs) ==
    With(BestTheta(first, last, sizes, first, 0, 0), LAMBDA found :
        IF found.numPairs > 0 THEN found
        ELSE [distance |-> INT_MIN,
              numPairs |-> IF sentinelPairs = "agreeing" THEN 0 ELSE numPairs])

(* estimateDistance: the distance, the out-parameter numPairs, and        *)
(* whether the search was called.                                          *)
EstimateDistance(len0, len1, prs) ==
    With(Dedup(Fragments(len0, len1, prs)), LAMBDA fragments :
        IF Len(fragments) < optNpairs
        THEN [distance |-> INT_MIN, numPairs |-> Len(fragments), searched |-> FALSE]
        ELSE With(MaximumLikelihoodEstimate(1 - K, PdfMaxIdx,
                                            FragmentSizes(fragments),
                                            len0, len1, Len(fragments)),
                  LAMBDA found : [distance |-> found.distance,
                                  numPairs |-> found.numPairs,
                                  searched |-> TRUE]))

(* The locals of estimateDistance: fragments as built by the loop,         *)
(* fragments after the removal of duplicates, numPairs as set at line 124  *)
(* and fragmentSizes as passed to the search (empty when the search is     *)
(* not called).                                                            *)
EstimateDistanceLocals(len0, len1, prs) ==
    With(Dedup(Fragments(len0, len1, prs)), LAMBDA fragments :
        [built |-> Fragments(len0, len1, prs),
         fragments |-> fragments,
         numPairs |-> Len(fragments),
         fragmentSizes |-> IF Len(fragments) < optNpairs THEN <<>>
                           ELSE FragmentSizes(fragments)])

----------------------------------------------------------------------------
(* ContigNode: a contig id and a sense bit.                                *)
ContigNode(id, sense) == [id |-> id, sense |-> sense]
Flip(node) == [node EXCEPT !.sense = ~node.sense]

(* The map order of the groups is ContigNode's operator<, which            *)
(* DistanceEst.cpp does not define: the nodes by id and then by sense, or  *)
(* by sense and then by id.                                                *)
NodeOrders == {"id", "sense"}

NodeRank(node) ==
    IF nodeOrder = "id"
    THEN 2 * node.id + (IF node.sense THEN 1 ELSE 0)
    ELSE (IF node.sense THEN Len(ContigLens) ELSE 0) + node.id

(* Mutant of MateNode: the sense of the key is the strand of the mate. *)
MateNodeMateStrand(sam) == ContigNode(sam.mrnm, sam.mateReverse)

(* The key of a record within dataMap[isReverse]. *)
MateNode(sam) == ContigNode(sam.mrnm, sam.reverse = sam.mateReverse)

(* dataMap[rev]: its keys in map order, and the records under one key in   *)
(* batch order.                                                            *)
DataKeySet(prs, rev) ==
    { MateNode(prs[i]) : i \in { j \in 1..Len(prs) : prs[j].reverse = rev } }

RECURSIVE InOrder(_)
InOrder(keys) ==
    IF keys = {} THEN <<>>
    ELSE With(CHOOSE n \in keys : \A m \in keys : NodeRank(n) <= NodeRank(m),
              LAMBDA least :
                  With(keys \ {least}, LAMBDA rest : <<least>> \o InOrder(rest)))

DataKeys(prs, rev) == With(DataKeySet(prs, rev), InOrder)

Group(prs, rev, node) ==
    SelectSeq(prs, LAMBDA sam : sam.reverse = rev /\ MateNode(sam) = node)

(* One write to a stream: `to` is "out", "cerr" or "ss" (the line buffer   *)
(* of writeEstimates).                                                     *)
Piece(to, kind, k, body) == [to |-> to, kind |-> kind, batch |-> k, body |-> body]

Link(id0, contig, est) ==
    [id0 |-> id0, contig |-> contig, distance |-> est.distance,
     numPairs |-> est.numPairs]

(* The links of a sequence of writes, in order. *)
RECURSIVE OutLinks(_)
OutLinks(o) ==
    IF o = <<>> THEN <<>>
    ELSE LET w == Head(o) IN
         (IF w.kind \in {"edge", "link"} THEN <<w.body>>
          ELSE IF w.kind = "line" THEN w.body.links
          ELSE <<>>) \o OutLinks(Tail(o))

(* Mutant of WriteEstimate: the threshold is tested on the number of       *)
(* records of the group, not on est.numPairs.                              *)
WriteEstimateRawCount(k, target, id0, id1, len0, len1, prs) ==
    IF Len(prs) < optNpairs THEN <<>>
    ELSE With(EstimateDistance(len0, len1, prs), LAMBDA est :
         IF optDot
         THEN <<Piece("out", "edge", k,
                      Link(id0, IF id0.sense THEN Flip(id1) ELSE id1, est))>>
         ELSE <<Piece(target, "link", k, Link(id0, id1, est))>>)

(* Mutant of WriteEstimate: without the early return for a group of fewer  *)
(* records than the threshold.                                             *)
WriteEstimateNoEarlyReturn(k, target, id0, id1, len0, len1, prs) ==
    With(EstimateDistance(len0, len1, prs), LAMBDA est :
         IF est.numPairs >= optNpairs
         THEN IF optDot
              THEN <<Piece("out", "edge", k,
                           Link(id0, IF id0.sense THEN Flip(id1) ELSE id1, est))>>
              ELSE <<Piece(target, "link", k, Link(id0, id1, est))>>
         ELSE IF Verbose > 1
              THEN <<Piece("cerr", "warning", k,
                           [id0 |-> id0, id1 |-> id1, numPairs |-> est.numPairs,
                            of |-> Len(prs)])>>
              ELSE <<>>)

(* writeEstimate: what it writes for one group, and to which stream.       *)
WriteEstimate(k, target, id0, id1, len0, len1, prs) ==
    IF Len(prs) < optNpairs THEN <<>>
    ELSE With(EstimateDistance(len0, len1, prs), LAMBDA est :
         IF est.numPairs >= optNpairs
         THEN IF optDot
              THEN <<Piece("out", "edge", k,
                           Link(id0, IF id0.sense THEN Flip(id1) ELSE id1, est))>>
              ELSE <<Piece(target, "link", k, Link(id0, id1, est))>>
         ELSE IF Verbose > 1
              THEN <<Piece("cerr", "warning", k,
                           [id0 |-> id0, id1 |-> id1, numPairs |-> est.numPairs,
                            of |-> Len(prs)])>>
              ELSE <<>>)

(* Mutant of EstimateTarget: every estimate goes straight to out. *)
EstimateTargetOut == "out"

(* The stream writeEstimates passes to writeEstimate. *)
EstimateTarget == IF optDot THEN "out" ELSE "ss"

(* The inner loop of writeEstimates over the groups of one anchor sense.   *)
RECURSIVE SenseWrites(_, _, _, _, _)
SenseWrites(k, prs, id0, len0, keys) ==
    IF keys = <<>> THEN <<>>
    ELSE LET rev == (id0.sense # optRf)
             id1 == Head(keys)
         IN  WriteEstimate(k, EstimateTarget, id0, id1, len0, LengthOf(id1.id),
                           Group(prs, rev, id1))
             \o SenseWrites(k, prs, id0, len0, Tail(keys))

(* writeEstimates: the writes of one batch, in program order.  In the      *)
(* adjacency format the links collected in ss are written as one line      *)
(* after the group loop.                                                   *)
WriteLine(k, rname, groupWrites) ==
    SelectSeq(groupWrites, LAMBDA w : w.to # "ss")
    \o (IF optDot THEN <<>>
        ELSE <<Piece("out", "line", k,
                     [rname |-> rname,
                      links |-> OutLinks(SelectSeq(groupWrites,
                                                   LAMBDA w : w.to = "ss"))])>>)

(* Mutant of WriteEstimates: without the test of the seed length. *)
WriteEstimatesNoSeedCheck(k, prs) ==
    With(SenseWrites(k, prs, ContigNode(Head(prs).rname, FALSE),
                     LengthOf(Head(prs).rname), DataKeys(prs, FALSE # optRf))
         \o SenseWrites(k, prs, ContigNode(Head(prs).rname, TRUE),
                        LengthOf(Head(prs).rname), DataKeys(prs, TRUE # optRf)),
         LAMBDA groupWrites : WriteLine(k, Head(prs).rname, groupWrites))

WriteEstimates(k, prs) ==
    IF LengthOf(Head(prs).rname) < SeedLen THEN <<>>
    ELSE With(<<DataKeys(prs, FALSE # optRf), DataKeys(prs, TRUE # optRf)>>,
              LAMBDA keys :
         With(SenseWrites(k, prs, ContigNode(Head(prs).rname, FALSE),
                          LengthOf(Head(prs).rname), keys[1])
              \o SenseWrites(k, prs, ContigNode(Head(prs).rname, TRUE),
                             LengthOf(Head(prs).rname), keys[2]),
              LAMBDA groupWrites : WriteLine(k, Head(prs).rname, groupWrites)))

(* The calls of writeEstimate made by the loops of writeEstimates for one  *)
(* anchor sense: call number n + 1 onwards, one per key of the map         *)
(* dataMap[sense0 ^ opt::rf], with the records under that key and whether  *)
(* the call gets as far as estimateDistance.                               *)
RECURSIVE SenseCalls(_, _, _, _, _)
SenseCalls(k, prs, id0, keys, n) ==
    IF keys = <<>> THEN {}
    ELSE LET rev == (id0.sense # optRf)
             id1 == Head(keys)
         IN  {[batch |-> k, idx |-> n + 1, id0 |-> id0, id1 |-> id1,
               pairs |-> Group(prs, rev, id1),
               estimated |-> ~(Len(Group(prs, rev, id1)) < optNpairs)]}
             \cup SenseCalls(k, prs, id0, Tail(keys), n + 1)

WriteEstimateCalls(k, prs) ==
    IF LengthOf(Head(prs).rname) < SeedLen THEN {}
    ELSE With(<<DataKeys(prs, FALSE # optRf), DataKeys(prs, TRUE # optRf)>>,
              LAMBDA keys :
         SenseCalls(k, prs, ContigNode(Head(prs).rname, FALSE), keys[1], 0)
         \cup SenseCalls(k, prs, ContigNode(Head(prs).rname, TRUE), keys[2],
                         Len(keys[1])))

----------------------------------------------------------------------------
(* The fragment size histogram: a function from the keys it holds to       *)
(* their counts.  loadHist leaves a histogram that is not empty.           *)
HistKeys == (0 - MaxKey)..MaxKey

RawHists ==
    { [key \in { j \in HistKeys : c[j] > 0 } |-> c[key]] :
        c \in [HistKeys -> 0..MaxCount] \ {[key \in HistKeys |-> 0]} }

(* The sum of the counts of a set of keys of a histogram. *)
RECURSIVE MassOf(_, _)
MassOf(h, keys) ==
    IF keys = {} THEN 0
    ELSE LET key == CHOOSE j \in keys : TRUE
         IN  h[key] + MassOf(h, keys \ {key})

(* Histogram::count(lo, hi): the number of elements in [lo, hi]. *)
Count(h, lo, hi) == MassOf(h, { key \in DOMAIN h : lo <= key /\ key <= hi })

(* Histogram::size *)
Size(h) == MassOf(h, DOMAIN h)

(* Histogram::negate: every key v becomes -v. *)
Negate(h) == [key \in { 0 - j : j \in DOMAIN h } |-> h[0 - key]]

(* Histogram::eraseNegative: the bins of negative keys are removed. *)
EraseNegative(h) == [key \in { j \in DOMAIN h : j >= 0 } |-> h[key]]

(* Histogram::trimFraction(0.0001): the bins that lie wholly within the    *)
(* first or the last 0.00005 of the mass are removed.                      *)
TrimFraction(h) ==
    [key \in { j \in DOMAIN h :
                 /\ 20000 * Count(h, INT_MIN, j) > Size(h)
                 /\ 20000 * Count(h, INT_MIN, j - 1) < 19999 * Size(h) }
        |-> h[key]]

(* Mutant of IsRF: the two counts exchanged. *)
IsRFSwapped(numFR, numRF) == numRF < numFR

(* The library is reverse-forward: if (numFR < numRF). *)
IsRF(numFR, numRF) == numFR < numRF

(* The histogram file of the runs of the pipeline: the library as it is,   *)
(* forward-reverse, or with every size negated, reverse-forward.           *)
LibraryHist ==
    [key \in { j \in 0..(Len(PdfWeights) - 1) : PdfWeights[j + 1] > 0 }
        |-> PdfWeights[key + 1]]

RunHists == {LibraryHist, Negate(LibraryHist)}

(* What main writes to cerr and does to the histogram h before it reads    *)
(* the first record.                                                       *)
SeedLengthWarning ==
    IF SeedLen < 2 * K THEN <<Piece("cerr", "seedlength", 0, <<K, SeedLen>>)>>
    ELSE <<>>

OrientationReport(h) ==
    IF Verbose > 0
    THEN <<Piece("cerr", "orientation", 0,
                 [numFR |-> Count(h, 1, INT_MAX), numRF |-> Count(h, INT_MIN, 0),
                  numTotal |-> Size(h)])>>
    ELSE <<>>

LibraryIsRF(h) == IsRF(Count(h, 1, INT_MAX), Count(h, INT_MIN, 0))

RFNotice(h) == IF LibraryIsRF(h) THEN <<Piece("cerr", "rf", 0, <<>>)>> ELSE <<>>

Oriented(h) == IF LibraryIsRF(h) THEN Negate(h) ELSE h

Trimmed(h) == TrimFraction(EraseNegative(h))

StatsReport(h) ==
    IF Verbose > 0 THEN <<Piece("cerr", "stats", 0, [n |-> Size(h)])>> ELSE <<>>

Prologue(h) ==
    SeedLengthWarning \o OrientationReport(h) \o RFNotice(h)
    \o StatsReport(Trimmed(Oriented(h)))

(* No call of estimateDistance on its own (the pipeline's runs). *)
NoCall == [len0 |-> 0, len1 |-> 0, pairs |-> <<>>]
NoResult == [returned |-> FALSE]

(* Mutant of SetPrivatePairs: a batch that was read lands in a buffer the   *)
(* workers share.                                                          *)
SetPrivatePairsShared(pp, w, batch) ==
    IF batch = <<>> THEN [pp EXCEPT ![w] = batch] ELSE [v \in DOMAIN pp |-> batch]

(* privatePairs is declared inside the parallel region: one per worker.    *)
SetPrivatePairs(pp, w, batch) == [pp EXCEPT ![w] = batch]

Init ==
    /\ stream \in Streams
    /\ pos = 2
    /\ pairs = <<stream[1]>>
    /\ seen = [c \in Contigs |-> FALSE]
    /\ nodeOrder \in NodeOrders
    /\ sentinelPairs \in SentinelPairs
    /\ optDot \in BOOLEAN
    /\ \E raw \in RunHists :
          /\ optRf = LibraryIsRF(raw)
          /\ hist = Trimmed(Oriented(raw))
          /\ cerr = Prologue(raw)
    /\ optNpairs \in {1, 2}
    /\ pc = [w \in Workers |-> "loop"]
    /\ privatePairs = [w \in Workers |-> <<>>]
    /\ pending = [w \in Workers |-> <<>>]
    /\ batchOf = [w \in Workers |-> 0]
    /\ handed = <<>>
    /\ out = IF optDot THEN <<Piece("out", "preamble", 0, <<K, SeedLen, optNpairs>>)>>
             ELSE <<>>
    /\ exitCode = -1
    /\ estIn = NoCall
    /\ estOut = NoResult
    /\ calls = {}
    /\ histPc = "ready"

(* critical(in) is held by a worker that found the input unsorted until    *)
(* the process ends.                                                       *)
InSortednessError == \E v \in Workers : pc[v] \in {"error", "exit"}

(* One pass of a worker through critical(in), up to the sortedness error   *)
(* if it meets one.                                                        *)
GetBatch(w) ==
    /\ exitCode = -1
    /\ pc[w] = "loop"
    /\ ~InSortednessError
    /\ \E r \in {ReadBatch(stream, pos, pairs, seen)} :
       /\ pos' = r.pos
       /\ pairs' = r.pairs
       /\ seen' = r.seen
       /\ IF r.fatal
          THEN /\ pc' = [pc EXCEPT ![w] = "error"]
               /\ UNCHANGED <<privatePairs, batchOf, handed>>
          ELSE /\ privatePairs' = SetPrivatePairs(privatePairs, w, r.batch)
               /\ handed' = Append(handed, r.batch)
               /\ IF r.batch = <<>>
                  THEN pc' = [pc EXCEPT ![w] = "done"] /\ UNCHANGED batchOf
                  ELSE /\ pc' = [pc EXCEPT ![w] = "estimate"]
                       /\ batchOf' = [batchOf EXCEPT ![w] = Len(handed) + 1]
    /\ UNCHANGED <<stream, nodeOrder, sentinelPairs, optDot, optRf, optNpairs, pending, out, estIn, estOut,
                   calls, hist, histPc, cerr, exitCode>>

(* How many insertions of the error message have reached cerr. *)
ErrorPartsWritten == Cardinality({i \in DOMAIN cerr : cerr[i].kind = "error"})

(* One insertion of the error message into cerr: the text, the name of the *)
(* contig, the closing quote.  It is not under critical(cerr), so the      *)
(* parts can land between the parts of a warning another worker is         *)
(* writing.                                                                *)
WriteError(w) ==
    /\ exitCode = -1
    /\ pc[w] = "error"
    /\ cerr' = Append(cerr, Piece("cerr", "error", 0,
                                  [part |-> ErrorPartsWritten + 1,
                                   rname |-> stream[pos - 1].rname]))
    /\ pc' = IF ErrorPartsWritten + 1 = ErrorParts
             THEN [pc EXCEPT ![w] = "exit"] ELSE pc
    /\ UNCHANGED <<stream, nodeOrder, sentinelPairs, pos, pairs, seen, optDot, optRf, optNpairs,
                   privatePairs, pending, batchOf, handed, out, exitCode, estIn,
                   estOut, calls, hist, histPc>>

(* exit(EXIT_FAILURE): the process ends whatever the other workers are in  *)
(* the middle of.                                                          *)
Exit(w) ==
    /\ exitCode = -1
    /\ pc[w] = "exit"
    /\ exitCode' = 1
    /\ UNCHANGED <<stream, nodeOrder, sentinelPairs, pos, pairs, seen, optDot, optRf, optNpairs, pc,
                   privatePairs, pending, batchOf, handed, out, cerr, estIn,
                   estOut, calls, hist, histPc>>

(* A write to a stream is several insertions.  While a worker is at the    *)
(* sortedness error the insertions matter one by one: the parts of the     *)
(* error message can land between them and exit() can cut the write after  *)
(* any of them.  PartWrite is a leading part of the write at the head of   *)
(* pending; Write writes what is left of it.  ErrorParts + 1 leading       *)
(* parts give every order of the parts of the two messages and every cut:  *)
(* one part before each part of the error message and one after the last,  *)
(* when exit() ends the write before it is whole.                          *)
PartsWritten(piece) == IF piece.kind = "rest" THEN piece.body.parts ELSE 0

WholeOf(piece) == IF piece.kind = "rest" THEN piece.body.of ELSE piece

(* critical(out) and critical(cerr): no other worker is in the middle of a *)
(* write to the stream.                                                    *)
StreamFree(w, to) ==
    \A v \in Workers \ {w} :
        ~(/\ pc[v] = "write"
          /\ Head(pending[v]).kind = "rest"
          /\ Head(pending[v]).to = to)

PartWrite(w) ==
    /\ exitCode = -1
    /\ pc[w] = "write"
    /\ InSortednessError
    /\ StreamFree(w, Head(pending[w]).to)
    /\ PartsWritten(Head(pending[w])) <= ErrorParts
    /\ \E piece \in {Head(pending[w])} :
         /\ LET part == Piece(piece.to, "part", piece.batch,
                              [of |-> WholeOf(piece),
                               parts |-> PartsWritten(piece) + 1])
            IN  IF piece.to = "cerr"
                THEN cerr' = Append(cerr, part) /\ UNCHANGED out
                ELSE out' = Append(out, part) /\ UNCHANGED cerr
         /\ pending' = [pending EXCEPT ![w] =
                <<Piece(piece.to, "rest", piece.batch,
                        [of |-> WholeOf(piece),
                         parts |-> PartsWritten(piece) + 1])>>
                \o Tail(pending[w])]
    /\ UNCHANGED <<stream, nodeOrder, sentinelPairs, pos, pairs, seen, optDot, optRf, optNpairs, pc,
                   privatePairs, batchOf, handed, exitCode, estIn, estOut, calls,
                   hist, histPc>>

(* What a call of writeEstimate writes to a stream that the workers       *)
(* share.                                                                  *)
CallWrites(c) ==
    SelectSeq(WriteEstimate(c.batch, EstimateTarget, c.id0, c.id1,
                            LengthOf(c.id0.id), LengthOf(c.id1.id), c.pairs),
              LAMBDA piece : piece.to # "ss")

(* What writeEstimates writes after its loops: the line of the batch in    *)
(* the adjacency format.                                                   *)
AfterLoops(k, prs) ==
    SelectSeq(WriteEstimates(k, prs), LAMBDA piece : piece.kind = "line")

(* The calls of writeEstimate that the worker has yet to make for its      *)
(* batch.                                                                  *)
CallsToMake(w) == WriteEstimateCalls(batchOf[w], privatePairs[w]) \ calls

(* writeEstimates leaves: the worker is back at the head of its loop. *)
ReturnToLoop(w) ==
    /\ pc' = [pc EXCEPT ![w] = "loop"]
    /\ privatePairs' = [privatePairs EXCEPT ![w] = <<>>]
    /\ batchOf' = [batchOf EXCEPT ![w] = 0]

(* The next step of writeEstimates up to a write to a shared stream: the   *)
(* next call of writeEstimate of its loops, or, after the loops, what is   *)
(* left to do.                                                             *)
Estimate(w) ==
    /\ exitCode = -1
    /\ pc[w] = "estimate"
    /\ \E todo \in {CallsToMake(w)} :
         IF todo # {}
         THEN \E c \in {CHOOSE c \in todo : \A d \in todo : c.idx <= d.idx} :
              \E writes \in {CallWrites(c)} :
                /\ calls' = calls \cup {c}
                /\ pending' = [pending EXCEPT ![w] = writes]
                /\ IF writes # <<>>
                   THEN /\ pc' = [pc EXCEPT ![w] = "write"]
                        /\ UNCHANGED <<privatePairs, batchOf>>
                   ELSE IF optDot /\ todo = {c}
                        THEN ReturnToLoop(w)
                        ELSE UNCHANGED <<pc, privatePairs, batchOf>>
         ELSE \E writes \in {AfterLoops(batchOf[w], privatePairs[w])} :
                /\ calls' = calls
                /\ pending' = [pending EXCEPT ![w] = writes]
                /\ IF writes # <<>>
                   THEN /\ pc' = [pc EXCEPT ![w] = "write"]
                        /\ UNCHANGED <<privatePairs, batchOf>>
                   ELSE ReturnToLoop(w)
    /\ UNCHANGED <<stream, nodeOrder, sentinelPairs, pos, pairs, seen, optDot,
                   optRf, optNpairs, handed, out, cerr, exitCode, estIn, estOut,
                   hist, histPc>>

(* One write of writeEstimates to out or to cerr.  After the line of the   *)
(* batch, or after the edge or the warning of the last call in the graph   *)
(* format, writeEstimates leaves; after any other write it goes on.        *)
Write(w) ==
    /\ exitCode = -1
    /\ pc[w] = "write"
    /\ StreamFree(w, Head(pending[w]).to)
    /\ \E piece \in {Head(pending[w])} :
         /\ IF piece.to = "cerr"
            THEN cerr' = Append(cerr, piece) /\ UNCHANGED out
            ELSE out' = Append(out, piece) /\ UNCHANGED cerr
         /\ pending' = [pending EXCEPT ![w] = Tail(pending[w])]
         /\ IF Tail(pending[w]) # <<>>
            THEN UNCHANGED <<pc, privatePairs, batchOf>>
            ELSE IF \/ WholeOf(piece).kind = "line"
                    \/ optDot /\ CallsToMake(w) = {}
                 THEN ReturnToLoop(w)
                 ELSE /\ pc' = [pc EXCEPT ![w] = "estimate"]
                      /\ UNCHANGED <<privatePairs, batchOf>>
    /\ UNCHANGED <<stream, nodeOrder, sentinelPairs, pos, pairs, seen, optDot,
                   optRf, optNpairs, handed, exitCode, estIn, estOut, calls, hist,
                   histPc>>

(* Mutant of Finish: the terminator is written as soon as one worker has   *)
(* left its loop.                                                          *)
FinishAfterFirstWorker ==
    /\ exitCode = -1
    /\ \E w \in Workers : pc[w] = "done"
    /\ out' = IF optDot THEN Append(out, Piece("out", "end", 0, <<>>)) ELSE out
    /\ exitCode' = 0
    /\ UNCHANGED <<stream, nodeOrder, sentinelPairs, pos, pairs, seen, optDot, optRf, optNpairs, pc,
                   privatePairs, pending, batchOf, handed, cerr, estIn, estOut,
                   calls, hist, histPc>>

(* After the parallel region: the terminator of the graph and return 0.    *)
Finish ==
    /\ exitCode = -1
    /\ \A w \in Workers : pc[w] = "done"
    /\ out' = IF optDot THEN Append(out, Piece("out", "end", 0, <<>>)) ELSE out
    /\ exitCode' = 0
    /\ UNCHANGED <<stream, nodeOrder, sentinelPairs, pos, pairs, seen, optDot, optRf, optNpairs, pc,
                   privatePairs, pending, batchOf, handed, cerr, estIn, estOut,
                   calls, hist, histPc>>

Next ==
    \/ \E w \in Workers : GetBatch(w)
    \/ \E w \in Workers : WriteError(w)
    \/ \E w \in Workers : Exit(w)
    \/ \E w \in Workers : Estimate(w)
    \/ \E w \in Workers : PartWrite(w)
    \/ \E w \in Workers : Write(w)
    \/ Finish

Spec == Init /\ [][Next]_vars

(* Every worker keeps running its loop while it can (the threads of the    *)
(* parallel region are scheduled fairly).                                  *)
FairSpec ==
    /\ Spec
    /\ \A w \in Workers :
          /\ WF_vars(GetBatch(w)) /\ WF_vars(Estimate(w)) /\ WF_vars(Write(w))
          /\ WF_vars(WriteError(w)) /\ WF_vars(Exit(w))

----------------------------------------------------------------------------
(* estimateDistance on its own: one call with arguments drawn from the     *)
(* groups of at most MaxGroup records between an anchor of length MaxCoord *)
(* and a mate contig one base longer, every strand combination and every   *)
(* coordinate from 0 to the length of the contig.                          *)
EstLen0 == MaxCoord
EstLen1 == MaxCoord + 1

EstRecords ==
    { Rec(0, 1, rev, mrev, c0, c1, MinMapQ, TRUE, FALSE, FALSE) :
        rev \in BOOLEAN, mrev \in BOOLEAN, c0 \in 0..EstLen0, c1 \in 0..EstLen1 }

EstGroups == UNION { [1..n -> EstRecords] : n \in 0..MaxGroup }

InitEst ==
    /\ stream = <<>>
    /\ pos = 1
    /\ pairs = <<>>
    /\ seen = [c \in Contigs |-> FALSE]
    /\ nodeOrder \in NodeOrders
    /\ sentinelPairs \in SentinelPairs
    /\ optDot = FALSE
    /\ optRf \in BOOLEAN
    /\ optNpairs \in {1, 2}
    /\ pc = [w \in Workers |-> "done"]
    /\ privatePairs = [w \in Workers |-> <<>>]
    /\ pending = [w \in Workers |-> <<>>]
    /\ batchOf = [w \in Workers |-> 0]
    /\ handed = <<>>
    /\ out = <<>>
    /\ cerr = <<>>
    /\ exitCode = 0
    /\ estIn \in [len0 : {EstLen0}, len1 : {EstLen1}, pairs : EstGroups]
    /\ estOut = NoResult
    /\ calls = {}
    /\ hist = LibraryHist
    /\ histPc = "ready"

CallEstimateDistance ==
    /\ ~estOut.returned
    /\ LET est == EstimateDistance(estIn.len0, estIn.len1, estIn.pairs) IN
       estOut' = [returned |-> TRUE, distance |-> est.distance,
                  numPairs |-> est.numPairs, searched |-> est.searched,
                  locals |-> EstimateDistanceLocals(estIn.len0, estIn.len1,
                                                    estIn.pairs)]
    /\ UNCHANGED <<stream, nodeOrder, sentinelPairs, pos, pairs, seen, optDot, optRf, optNpairs, pc,
                   privatePairs, pending, batchOf, handed, out, cerr, exitCode,
                   estIn, calls, hist, histPc>>

NextEst == CallEstimateDistance

SpecEst == InitEst /\ [][NextEst]_vars

----------------------------------------------------------------------------
(* The runs of main from the loaded histogram on (the seed length warning  *)
(* is written before), on an input of one record or on an alternating      *)
(* stream.                                                                 *)
InitHist ==
    /\ stream \in [1..1 -> Records] \cup AlternatingStreams
    /\ pos = 1
    /\ pairs = <<>>
    /\ seen = [c \in Contigs |-> FALSE]
    /\ nodeOrder \in NodeOrders
    /\ sentinelPairs \in SentinelPairs
    /\ optDot \in BOOLEAN
    /\ optRf = FALSE
    /\ optNpairs \in {1, 2}
    /\ pc = [w \in Workers |-> "loop"]
    /\ privatePairs = [w \in Workers |-> <<>>]
    /\ pending = [w \in Workers |-> <<>>]
    /\ batchOf = [w \in Workers |-> 0]
    /\ handed = <<>>
    /\ out = IF optDot THEN <<Piece("out", "preamble", 0, <<K, SeedLen, optNpairs>>)>>
             ELSE <<>>
    /\ cerr = SeedLengthWarning
    /\ exitCode = -1
    /\ estIn = NoCall
    /\ estOut = NoResult
    /\ calls = {}
    /\ hist \in RawHists
    /\ histPc = "loaded"

(* Library Orientation Detector: the counts, their report, and for a       *)
(* reverse-forward library the notice, the flag and the negation of the    *)
(* histogram.                                                              *)
DetectOrientation ==
    /\ histPc = "loaded"
    /\ cerr' = cerr \o OrientationReport(hist) \o RFNotice(hist)
    /\ optRf' = IF LibraryIsRF(hist) THEN TRUE ELSE optRf
    /\ hist' = Oriented(hist)
    /\ histPc' = "oriented"
    /\ UNCHANGED <<stream, nodeOrder, sentinelPairs, pos, pairs, seen, optDot, optNpairs, pc, privatePairs,
                   pending, batchOf, handed, out, exitCode, estIn, estOut, calls>>

(* Empirical Distribution Builder: eraseNegative, trimFraction, the        *)
(* statistics at verbosity 1, and the distribution built from the result   *)
(* (hist from here on is what the estimates read through PdfAt).           *)
BuildDistribution ==
    /\ histPc = "oriented"
    /\ hist' = Trimmed(hist)
    /\ cerr' = cerr \o StatsReport(Trimmed(hist))
    /\ histPc' = "built"
    /\ UNCHANGED <<stream, nodeOrder, sentinelPairs, pos, pairs, seen, optDot, optRf, optNpairs, pc,
                   privatePairs, pending, batchOf, handed, out, exitCode, estIn,
                   estOut, calls>>

(* The first record is read into pairs before the parallel region. *)
ReadFirstRecord ==
    /\ histPc = "built"
    /\ pairs' = <<stream[1]>>
    /\ pos' = 2
    /\ histPc' = "ready"
    /\ UNCHANGED <<stream, nodeOrder, sentinelPairs, seen, optDot, optRf, optNpairs, pc, privatePairs,
                   pending, batchOf, handed, out, cerr, exitCode, estIn, estOut,
                   calls, hist>>

NextHist ==
    \/ DetectOrientation
    \/ BuildDistribution
    \/ ReadFirstRecord
    \/ (histPc = "ready" /\ Next)

SpecHist == InitHist /\ [][NextHist]_vars

----------------------------------------------------------------------------
(* Vocabulary of the properties. *)

RECURSIVE BagOfSeq(_)
BagOfSeq(q) ==
    IF q = <<>> THEN EmptyBag ELSE SetToBag({Head(q)}) (+) BagOfSeq(Tail(q))

(* The writes of a run with one worker: batch after batch, each batch's    *)
(* writes in program order.                                                *)
RECURSIVE SingleWorkerWrites(_, _, _, _, _)
SingleWorkerWrites(s, p, prs, sn, k) ==
    LET r == ReadBatch(s, p, prs, sn) IN
    IF r.fatal \/ r.batch = <<>> THEN <<>>
    ELSE WriteEstimates(k, r.batch)
         \o SingleWorkerWrites(s, r.pos, r.pairs, r.seen, k + 1)

SingleWorkerLinks ==
    OutLinks(SelectSeq(
        SingleWorkerWrites(stream, 2, <<stream[1]>>, [c \in Contigs |-> FALSE], 1),
        LAMBDA w : w.to = "out"))

(* The records of a stream that pass the record-level filter, and their    *)
(* maximal runs of one anchor id.                                          *)
Retained(s) == SelectSeq(s, LAMBDA sam : ~Dropped(sam))

RECURSIVE Runs(_)
Runs(rs) ==
    IF rs = <<>> THEN <<>>
    ELSE LET rest == Runs(Tail(rs)) IN
         IF rest # <<>> /\ Head(Head(rest)).rname = Head(rs).rname
         THEN <<<<Head(rs)>> \o Head(rest)>> \o Tail(rest)
         ELSE <<<<Head(rs)>>>> \o rest

(* An anchor id comes back after a record of another anchor. *)
AnchorReappears(rs) ==
    \E i, j, l \in DOMAIN rs :
        i < j /\ j < l /\ rs[i].rname = rs[l].rname /\ rs[j].rname # rs[i].rname

NonEmptyHanded == SelectSeq(handed, LAMBDA b : b # <<>>)

(* No write of another batch lies between two writes of one batch. *)
Contiguous(o) ==
    \A i, j, l \in DOMAIN o :
        (i < j /\ j < l /\ o[i].batch > 0 /\ o[i].batch = o[l].batch)
            => o[j].batch = o[i].batch

AllWorkersDone == \A w \in Workers : pc[w] = "done"

(* The run has met the sortedness error. *)
FatalErrorMet == InSortednessError \/ exitCode = 1

(* The entries of a stream that are parts of a write are the leading parts *)
(* of one write in their order, followed by what is left of that write     *)
(* unless the stream ends there.                                           *)
PartsInOrder(o) ==
    \A i \in DOMAIN o :
        /\ o[i].kind \in {"part", "rest"} =>
              /\ FatalErrorMet
              /\ (o[i].kind = "rest" \/ o[i].body.parts > 1) =>
                    /\ i > 1
                    /\ o[i - 1].kind = "part"
                    /\ o[i - 1].batch = o[i].batch
                    /\ o[i - 1].body.of = o[i].body.of
                    /\ o[i - 1].body.parts =
                          IF o[i].kind = "rest" THEN o[i].body.parts
                          ELSE o[i].body.parts - 1
        /\ (o[i].kind = "part" /\ i < Len(o)) =>
              /\ o[i + 1].kind \in {"part", "rest"}
              /\ o[i + 1].body.of = o[i].body.of

DistinctFragments(len0, len1, prs) ==
    { Fragment(len0, len1, prs[i]) : i \in DOMAIN prs }

(* Two records of a batch are of one group: same anchor strand, same mate  *)
(* contig, same relative sense.                                            *)
RelativeSenseSame(sam) == sam.reverse = sam.mateReverse

SameGroup(a, b) ==
    /\ a.reverse = b.reverse
    /\ a.mrnm = b.mrnm
    /\ RelativeSenseSame(a) = RelativeSenseSame(b)

GroupOf(prs, sam) == SelectSeq(prs, LAMBDA other : SameGroup(other, sam))

DistinctOf(prs, sam) ==
    Cardinality(DistinctFragments(LengthOf(sam.rname), LengthOf(sam.mrnm),
                                  GroupOf(prs, sam)))

(* The batches writeEstimates does not skip. *)
SeedBatches ==
    { k \in DOMAIN handed :
        handed[k] # <<>> /\ LengthOf(Head(handed[k]).rname) >= SeedLen }

ShortBatches ==
    { k \in DOMAIN handed :
        handed[k] # <<>> /\ LengthOf(Head(handed[k]).rname) < SeedLen }

(* The number of warnings on the diagnostic stream about the group of      *)
(* record sam of batch k.                                                  *)
WarningsFor(k, sam) ==
    Cardinality({ j \in DOMAIN cerr :
        /\ cerr[j].kind = "warning"
        /\ cerr[j].batch = k
        /\ cerr[j].body.id0 = [id |-> sam.rname, sense |-> (sam.reverse # optRf)]
        /\ cerr[j].body.id1 = [id |-> sam.mrnm, sense |-> RelativeSenseSame(sam)] })

(* The sizes of a set of fragments, as a bag. *)
RECURSIVE BagOfSizes(_)
BagOfSizes(fs) ==
    IF fs = {} THEN EmptyBag
    ELSE LET f == CHOOSE x \in fs : TRUE
         IN  SetToBag({f[2] - f[1]}) (+) BagOfSizes(fs \ {f})

(* The coordinates of a record after the reflections of the Fragment       *)
(* Model.                                                                  *)
ReflectedAnchor(len0, sam) == IF sam.reverse THEN len0 - sam.a0 ELSE sam.a0
ReflectedMate(len1, sam) == IF sam.mateReverse THEN sam.a1 ELSE len1 - sam.a1

(* writeEstimates has returned for batch k, of an anchor that is not       *)
(* short.                                                                  *)
Processed(k) ==
    /\ k \in SeedBatches
    /\ \A w \in Workers : batchOf[w] # k

CallsOf(k) == { c \in calls : c.batch = k }

(* Every record of batch k is in the group of exactly one of the calls of  *)
(* writeEstimate made for it.                                              *)
EveryRecordInOneCall(k) ==
    \A i \in DOMAIN handed[k] :
        Cardinality({ c \in CallsOf(k) :
            \E j \in DOMAIN c.pairs : c.pairs[j] = handed[k][i] }) = 1

(* The calls of writeEstimate made so far for batch k are the first calls  *)
(* of the loops, each made once: every one passes a whole group of the     *)
(* batch, not empty, under its key and in its section, no two pass the     *)
(* same group, and the forward-sense section comes first.                  *)
CallsAreGroups(k) ==
    /\ { c.idx : c \in CallsOf(k) } = 1..Cardinality(CallsOf(k))
    /\ \A c \in CallsOf(k) :
          /\ c.pairs # <<>>
          /\ c.pairs = GroupOf(handed[k], c.pairs[1])
          /\ c.id0.id = Head(handed[k]).rname
          /\ c.id0.sense = FALSE <=> c.pairs[1].reverse = optRf
          /\ c.id1 = [id |-> c.pairs[1].mrnm,
                      sense |-> RelativeSenseSame(c.pairs[1])]
    /\ \A c, d \in CallsOf(k) :
          /\ (c # d) => ~SameGroup(c.pairs[1], d.pairs[1])
          /\ (~c.id0.sense /\ d.id0.sense) => c.idx < d.idx

(* The number of links in the primary output for the group of record sam   *)
(* of batch k: edges in the graph format, links of the line of the batch   *)
(* in the adjacency format.                                                *)
LinksFor(k, sam) ==
    LET id0 == [id |-> sam.rname, sense |-> (sam.reverse # optRf)]
        id1 == [id |-> sam.mrnm, sense |-> RelativeSenseSame(sam)]
    IN  Cardinality({ i \in DOMAIN out :
            /\ out[i].kind = "edge"
            /\ out[i].batch = k
            /\ out[i].body.id0 = id0
            /\ out[i].body.contig =
                   [id |-> id1.id, sense |-> (id1.sense # id0.sense)] })
        + Cardinality({ ij \in (DOMAIN out) \X (1..Len(stream)) :
            /\ out[ij[1]].kind = "line"
            /\ out[ij[1]].batch = k
            /\ ij[2] \in DOMAIN out[ij[1]].body.links
            /\ out[ij[1]].body.links[ij[2]].id0 = id0
            /\ out[ij[1]].body.links[ij[2]].contig = id1 })

----------------------------------------------------------------------------
(* C1: a run that returns 0 has written the same multiset of links        *)
(* (anchor and its sense, mate contig and its sense, distance, pair count) *)
(* as the run of a single worker on the same input, whatever the           *)
(* interleaving of the workers.                                            *)
C1_SameLinksAsSingleWorker ==
    exitCode = 0 /\ stream # <<>>
        => BagOfSeq(OutLinks(out)) = BagOfSeq(SingleWorkerLinks)

(* C1 witness: a finished run with two links whose writes reached the      *)
(* output in the opposite order of their batches.                          *)
C1_Witness ==
    /\ exitCode = 0
    /\ Len(OutLinks(out)) >= 2
    /\ \E i, j \in DOMAIN out :
          i < j /\ out[j].batch > 0 /\ out[i].batch > out[j].batch

(* C2 (as claimed): a stream in which an anchor id comes back after its    *)
(* batch was closed never ends with return 0.                              *)
C2_ReappearanceIsFatal ==
    exitCode = 0 /\ stream # <<>> => ~AnchorReappears(Retained(stream))

(* C3 (as claimed): no batch handed to a worker holds a record that the    *)
(* record-level filter rejects.                                            *)
C3_DroppedNeverInBatch ==
    \A i \in DOMAIN handed : \A j \in DOMAIN handed[i] : ~Dropped(handed[i][j])

(* C4 (as claimed): when the only record of the stream has a mapping       *)
(* quality below the threshold, no line, edge or link is written to the    *)
(* primary output.                                                         *)
C4_LowQualityOnlyRecordWritesNothing ==
    (Len(stream) = 1 /\ stream[1].mapq < MinMapQ)
        => \A i \in DOMAIN out : out[i].kind \notin {"line", "edge", "link"}

(* C5 (as claimed): the k-th non-empty batch handed out is the k-th        *)
(* maximal run of retained records of one anchor id, and a run that        *)
(* returns 0 has handed out every run.                                     *)
C5_BatchesAreRetainedRuns ==
    stream # <<>> =>
        LET runs == Runs(Retained(stream))
            got == NonEmptyHanded
        IN  /\ Len(got) <= Len(runs)
            /\ \A k \in DOMAIN got : got[k] = runs[k]
            /\ exitCode = 0 => Len(got) = Len(runs)

(* C6 (as claimed): in both formats the writes of one batch are contiguous *)
(* in the primary output.                                                  *)
C6_BatchOutputContiguous == Contiguous(out)

(* C6 (amended): in the adjacency format the output of a batch is one      *)
(* line written by one write, so it is contiguous; in the graph format     *)
(* every write is one whole edge line.  Nothing is written inside a line   *)
(* or an edge; only a run that meets the sortedness error can end in the   *)
(* middle of one.                                                          *)
C6_LineOrEdgeIsAtomic ==
    /\ ~optDot => /\ Contiguous(out)
                  /\ \A i \in DOMAIN out : out[i].kind \in {"line", "part", "rest"}
    /\ optDot => \A i \in DOMAIN out :
                     out[i].kind \in {"preamble", "edge", "end", "part", "rest"}
    /\ PartsInOrder(out)

(* C6 witness: adjacency format, two lines with links written in the       *)
(* opposite order of their batches.                                        *)
C6_Witness ==
    /\ ~optDot
    /\ Len(out) >= 2
    /\ out[1].batch > out[2].batch
    /\ out[1].body.links # <<>>
    /\ out[2].body.links # <<>>

(* C7: under fair scheduling every worker leaves its loop unless the run   *)
(* ends in the fatal error.  Empty batches are handed out only after the   *)
(* end of the stream, after the last non-empty one; the acquisition that   *)
(* meets the end of the stream hands out what pairs holds and leaves it    *)
(* empty; and the workers that have left are exactly those that were       *)
(* handed an empty batch.                                                  *)
C7_WorkersExit ==
    /\ [](\A i \in DOMAIN handed :
             handed[i] = <<>> =>
                 /\ pos > Len(stream)
                 /\ i > 1
                 /\ \A j \in DOMAIN handed : j > i => handed[j] = <<>>)
    /\ [](Cardinality({w \in Workers : pc[w] = "done"})
             = Len(handed) - Len(NonEmptyHanded))
    /\ [][(handed' # handed /\ pos' = pos)
             => (handed'[Len(handed')] = pairs /\ pairs' = <<>>)]_vars
    /\ <>(exitCode = 1 \/ AllWorkersDone)

(* C7 witness: every worker has left after at least two non-empty batches. *)
C7_Witness ==
    /\ AllWorkersDone
    /\ stream # <<>>
    /\ Len(NonEmptyHanded) >= 2
    /\ Len(handed) = Len(NonEmptyHanded) + NumWorkers

(* C8: every link in the primary output reports at least opt::npairs       *)
(* pairs.                                                                  *)
C8_WrittenLinksMeetMinimum ==
    \A i \in DOMAIN OutLinks(out) : OutLinks(out)[i].numPairs >= optNpairs

(* C8 witness: with a minimum of two pairs, a finished run wrote a link of *)
(* two pairs for one group of a batch and nothing for another group of it. *)
C8_Witness ==
    /\ exitCode = 0
    /\ optNpairs = 2
    /\ Len(OutLinks(out)) = 1
    /\ OutLinks(out)[1].numPairs = 2
    /\ \E i \in DOMAIN handed :
          Cardinality(DataKeySet(handed[i], TRUE) \cup DataKeySet(handed[i], FALSE)) >= 2

C10_BelowMinimumIsInvalid ==
    estOut.returned =>
        LET distinct == Cardinality(DistinctFragments(estIn.len0, estIn.len1,
                                                      estIn.pairs))
        IN  distinct < optNpairs
                => /\ estOut.distance = INT_MIN
                   /\ estOut.numPairs = distinct
                   /\ ~estOut.searched

(* C10 witness: a returned call on a group of two records with the same    *)
(* fragment and a minimum of two pairs.                                    *)
C10_Witness ==
    /\ estOut.returned
    /\ optNpairs = 2
    /\ Len(estIn.pairs) = 2
    /\ Cardinality(DistinctFragments(estIn.len0, estIn.len1, estIn.pairs)) = 1
    /\ ~estOut.searched

(* C11 (as claimed): in a finished run every group of a processed batch    *)
(* whose number of distinct fragments is below opt::npairs, so that it     *)
(* gives no link, has exactly one warning on the diagnostic stream, also   *)
(* when the group has fewer records than opt::npairs.                      *)
C11_EveryGroupBelowMinimumWarned ==
    exitCode = 0 /\ stream # <<>> =>
        \A k \in SeedBatches : \A i \in DOMAIN handed[k] :
            DistinctOf(handed[k], handed[k][i]) < optNpairs
                => WarningsFor(k, handed[k][i]) = 1

(* C11 (amended): in a finished run a group of a processed batch with at   *)
(* least opt::npairs records has either one link in the primary output or  *)
(* one warning, the warning whenever it has fewer than opt::npairs         *)
(* distinct fragments; a group of fewer than opt::npairs records has no    *)
(* link and no warning.                                                    *)
C11_WarnedUnlessTooFewRecords ==
    exitCode = 0 /\ stream # <<>> =>
        \A k \in SeedBatches : \A i \in DOMAIN handed[k] :
            IF Len(GroupOf(handed[k], handed[k][i])) < optNpairs
            THEN /\ WarningsFor(k, handed[k][i]) = 0
                 /\ LinksFor(k, handed[k][i]) = 0
            ELSE /\ WarningsFor(k, handed[k][i]) + LinksFor(k, handed[k][i]) = 1
                 /\ DistinctOf(handed[k], handed[k][i]) < optNpairs
                       => WarningsFor(k, handed[k][i]) = 1

(* C11 witness: a finished run in which one batch had a group that was     *)
(* warned about and a group of a single record that was passed over.       *)
C11_Witness ==
    /\ exitCode = 0
    /\ optNpairs = 2
    /\ \E k \in SeedBatches : \E i, j \in DOMAIN handed[k] :
          /\ WarningsFor(k, handed[k][i]) = 1
          /\ Len(GroupOf(handed[k], handed[k][j])) = 1
          /\ WarningsFor(k, handed[k][j]) = 0

(* C12: a batch whose anchor contig is shorter than opt::seedLen puts      *)
(* nothing on the primary output in either format, none of its groups is   *)
(* passed on by writeEstimates, and the step of the worker that discards   *)
(* it leaves the read position, pairs and seen as they were.               *)
C12_ShortAnchorBatchDiscarded ==
    /\ [](\A k \in ShortBatches :
             /\ \A i \in DOMAIN out : out[i].batch # k
             /\ \A c \in calls : c.batch # k)
    /\ [][\A w \in Workers :
             (pc[w] = "estimate" /\ pc'[w] # "estimate" /\ batchOf[w] \in ShortBatches)
                 => /\ pos' = pos /\ pairs' = pairs /\ seen' = seen
                    /\ out' = out /\ calls' = calls
                    /\ pc'[w] = "loop"]_vars

(* C12 witness: a finished run that was handed a batch of a short anchor   *)
(* with a minimum of one pair, and a batch of a long anchor that was       *)
(* written.                                                                *)
C12_Witness ==
    /\ exitCode = 0
    /\ optNpairs = 1
    /\ ShortBatches # {}
    /\ \E i \in DOMAIN out : out[i].batch \in SeedBatches

(* C13 (as claimed): in a run that returns 0 no two batches handed to      *)
(* workers have the same anchor contig, and the adjacency report has at    *)
(* most one line per anchor contig.                                        *)
C13_OneBatchPerAnchor ==
    exitCode = 0 /\ stream # <<>> =>
        /\ \A i, j \in DOMAIN NonEmptyHanded :
              i # j => Head(NonEmptyHanded[i]).rname # Head(NonEmptyHanded[j]).rname
        /\ \A i, j \in DOMAIN out :
              (i # j /\ out[i].kind = "line" /\ out[j].kind = "line")
                  => out[i].body.rname # out[j].body.rname

(* C14: the fragment sizes passed to the search are one per distinct       *)
(* (start, end) fragment of the group, so that fragments of equal size     *)
(* with different ends each give a size, and numPairs as set before the    *)
(* search (and as returned when there is no search) is the number of       *)
(* distinct fragments.                                                     *)
C14_OneSizePerDistinctFragment ==
    estOut.returned =>
        LET distinct == DistinctFragments(estIn.len0, estIn.len1, estIn.pairs)
        IN  /\ estOut.locals.numPairs = Cardinality(distinct)
            /\ ~estOut.searched => estOut.numPairs = Cardinality(distinct)
            /\ estOut.searched
                  => BagOfSeq(estOut.locals.fragmentSizes) = BagOfSizes(distinct)

(* C14 witness: a call that passed two equal sizes of two different        *)
(* fragments to the search.                                                *)
C14_Witness ==
    /\ estOut.returned
    /\ estOut.searched
    /\ Len(estOut.locals.fragmentSizes) = 2
    /\ estOut.locals.fragmentSizes[1] = estOut.locals.fragmentSizes[2]
    /\ estOut.locals.fragments[1] # estOut.locals.fragments[2]

(* C15: removing the duplicates of the list estimateDistance has already   *)
(* deduplicated gives that list again.                                     *)
C15_DedupIdempotent ==
    estOut.returned => Dedup(estOut.locals.fragments) = estOut.locals.fragments

(* C15 witness: a call whose two records gave the same fragment, of which  *)
(* one was kept and passed to the search.                                  *)
C15_Witness ==
    /\ estOut.returned
    /\ estOut.searched
    /\ Len(estOut.locals.built) = 2
    /\ estOut.locals.built[1] = estOut.locals.built[2]
    /\ Len(estOut.locals.fragments) = 1

(* C16: with a0 reflected in the anchor length when the anchor alignment   *)
(* is reverse and a1 reflected in the mate length when the mate alignment  *)
(* is forward, the fragment of a record is (a1, mate length + a0) when     *)
(* opt::rf is set and (a0, anchor length + a1) otherwise; for a forward    *)
(* anchor and a reverse mate without opt::rf the end is the anchor length  *)
(* plus the raw mate coordinate.                                           *)
C16_FragmentOfRecord ==
    estOut.returned =>
        \A i \in DOMAIN estIn.pairs :
            LET sam == estIn.pairs[i]
                a0 == ReflectedAnchor(estIn.len0, sam)
                a1 == ReflectedMate(estIn.len1, sam)
            IN  /\ optRf => estOut.locals.built[i] = <<a1, estIn.len1 + a0>>
                /\ ~optRf => estOut.locals.built[i] = <<a0, estIn.len0 + a1>>
                /\ (~optRf /\ ~sam.reverse /\ sam.mateReverse)
                      => estOut.locals.built[i][2] = estIn.len0 + sam.a1

(* C16 witness: a call under opt::rf on a record with a reverse anchor and *)
(* a forward mate, both coordinates reflected and not in the middle.       *)
C16_Witness ==
    /\ estOut.returned
    /\ optRf
    /\ \E i \in DOMAIN estIn.pairs :
          /\ estIn.pairs[i].reverse /\ ~estIn.pairs[i].mateReverse
          /\ estIn.pairs[i].a0 = 0 /\ estIn.pairs[i].a1 = 0
          /\ estOut.locals.built[i] = <<estIn.len1, estIn.len1 + estIn.len0>>

(* C17 (as claimed): with the coordinates within the contigs, every        *)
(* fragment has an end strictly greater than its start and every size      *)
(* passed to the search is positive.                                       *)
C17_EndExceedsStart ==
    estOut.returned =>
        /\ \A i \in DOMAIN estOut.locals.built :
              estOut.locals.built[i][2] > estOut.locals.built[i][1]
        /\ \A i \in DOMAIN estOut.locals.fragmentSizes :
              estOut.locals.fragmentSizes[i] > 0

(* C17 (amended): with the coordinates within the contigs, the end of a    *)
(* fragment is never less than its start, and equal to it exactly when the *)
(* reflected coordinate of the first contig of the layout is the length of *)
(* that contig and the reflected coordinate of the second is 0; the sizes  *)
(* passed to the search are not negative.                                  *)
C17_EndAtLeastStart ==
    estOut.returned =>
        /\ \A i \in DOMAIN estOut.locals.built :
              LET sam == estIn.pairs[i]
                  a0 == ReflectedAnchor(estIn.len0, sam)
                  a1 == ReflectedMate(estIn.len1, sam)
              IN  /\ estOut.locals.built[i][2] >= estOut.locals.built[i][1]
                  /\ estOut.locals.built[i][2] = estOut.locals.built[i][1]
                        <=> IF optRf THEN a1 = estIn.len1 /\ a0 = 0
                            ELSE a0 = estIn.len0 /\ a1 = 0
        /\ \A i \in DOMAIN estOut.locals.fragmentSizes :
              estOut.locals.fragmentSizes[i] >= 0

(* C17 witness: a call that passed a size of 0 and a positive size to the  *)
(* search.                                                                 *)
C17_Witness ==
    /\ estOut.returned
    /\ estOut.searched
    /\ \E i, j \in DOMAIN estOut.locals.fragmentSizes :
          estOut.locals.fragmentSizes[i] = 0 /\ estOut.locals.fragmentSizes[j] > 0

(* C18 (as claimed): the groups of a processed batch are a partition of   *)
(* the batch and every group is handed to the estimator, estimateDistance, *)
(* exactly once.                                                           *)
C18_EveryGroupEstimated ==
    \A k \in DOMAIN handed : Processed(k) =>
        /\ EveryRecordInOneCall(k)
        /\ CallsAreGroups(k)
        /\ \A c \in CallsOf(k) : c.estimated

(* C18 (amended): at every moment the calls of writeEstimate made for a    *)
(* batch pass whole groups of it, each group at most once, under the mate  *)
(* contig and relative sense as key, in the forward-sense section when     *)
(* the anchor strand flag of the group equals opt::rf and in the           *)
(* reverse-sense section otherwise, the forward-sense section first.       *)
(* Once writeEstimates has returned for the batch every record of it lies  *)
(* in exactly one of these groups, and estimateDistance was called for a   *)
(* group exactly when it has at least opt::npairs records.                 *)
C18_GroupingIsPartition ==
    \A k \in DOMAIN handed :
        /\ CallsAreGroups(k)
        /\ Processed(k) =>
              /\ EveryRecordInOneCall(k)
              /\ \A c \in CallsOf(k) :
                    c.estimated <=> Len(c.pairs) >= optNpairs

(* C18 witness: under opt::rf and a minimum of two pairs, a processed      *)
(* batch of three records in two groups, one passed on in each section:    *)
(* a group of one record that was not estimated and a group of two that    *)
(* was.                                                                    *)
C18_Witness ==
    /\ optRf
    /\ optNpairs = 2
    /\ \E k \in DOMAIN handed :
          /\ Processed(k)
          /\ Len(handed[k]) = 3
          /\ \E c, d \in CallsOf(k) :
                /\ ~c.id0.sense /\ d.id0.sense
                /\ Len(c.pairs) = 1 /\ ~c.estimated
                /\ Len(d.pairs) = 2 /\ d.estimated

(* C19: when the raw histogram has more mass on negative keys than on the  *)
(* other keys, the detector sets opt::rf and negates the histogram; the    *)
(* distribution that is built has no negative key; opt::rf changes only    *)
(* from false to true, in the detector, before any batch is handed to a    *)
(* worker, and never once the distribution is built.                       *)
C19_NegativeMajorityIsReverseForward ==
    /\ [][(/\ histPc = "loaded" /\ histPc' = "oriented"
           /\ MassOf(hist, { key \in DOMAIN hist : key < 0 })
                 > MassOf(hist, { key \in DOMAIN hist : key >= 0 }))
             => /\ optRf'
                /\ DOMAIN hist' = { 0 - key : key \in DOMAIN hist }
                /\ \A key \in DOMAIN hist : hist'[0 - key] = hist[key]]_vars
    /\ [](histPc \in {"built", "ready"} => \A key \in DOMAIN hist : key >= 0)
    /\ [][optRf' # optRf
             => /\ ~optRf /\ optRf'
                /\ histPc = "loaded"
                /\ handed = <<>>
                /\ \A w \in Workers : pc[w] = "loop"]_vars
    /\ [][(histPc \in {"built", "ready"}) => (optRf' = optRf)]_vars

(* C19 witness: a finished run under opt::rf whose raw histogram had mass  *)
(* on a positive key and more mass on negative keys than on all others:    *)
(* after the negation the former is what the detector counted as FR, the   *)
(* latter is on the positive keys of the distribution.                     *)
C19_Witness ==
    /\ exitCode = 0
    /\ histPc = "ready"
    /\ optRf
    /\ Len(stream) = 1
    /\ \E i \in DOMAIN cerr :
          /\ cerr[i].kind = "orientation"
          /\ cerr[i].body.numFR > 0
          /\ MassOf(hist, { key \in DOMAIN hist : key > 0 })
                > MassOf(hist, { key \in DOMAIN hist : key = 0 })
                  + cerr[i].body.numFR

(* C20: in the graph format the output is the preamble, then edge lines    *)
(* only, then in a run that returns 0 the terminator as its last line; the *)
(* terminator is in the output only when every worker has left its loop    *)
(* with nothing left to write, and nothing is written after it.            *)
C20_TerminatorIsLast ==
    /\ []((optDot /\ stream # <<>>) =>
             /\ out # <<>>
             /\ out[1].kind = "preamble"
             /\ \A i \in 2..Len(out) :
                   /\ out[i].kind \in {"edge", "end"}
                         \cup (IF FatalErrorMet THEN {"part", "rest"} ELSE {})
                   /\ out[i].kind = "end"
                         => /\ i = Len(out)
                            /\ AllWorkersDone
                            /\ \A w \in Workers : pending[w] = <<>>
             /\ exitCode = 0 => (Len(out) >= 2 /\ out[Len(out)].kind = "end"))
    /\ [][(optDot /\ out # <<>> /\ out[Len(out)].kind = "end") => out' = out]_vars

(* C20 witness: a finished run in the graph format whose two edges, of two *)
(* batches, were written in the opposite order of their batches.           *)
C20_Witness ==
    /\ optDot
    /\ exitCode = 0
    /\ Len(out) = 4
    /\ out[2].kind = "edge" /\ out[3].kind = "edge"
    /\ out[2].batch > out[3].batch
    /\ out[4].kind = "end"

====
